---- MODULE Spec2Model ----
(***************************************************************************)
(* The service-request lifecycle of the nursing-services backend           *)
(* (routes/serviceRequests.js): the ServiceRequest collection, the         *)
(* Transaction collection, and the HTTP handlers that read and write them. *)
(* Every handler is split at its awaits on the record store: a handler     *)
(* that does findOne and later save() takes two steps, and other requests  *)
(* may run between them. Where the router registers two handlers for the   *)
(* same method and path, the first one answers and the second never runs.  *)
(* resp, body, okEstado and okPagar are history: they record what was      *)
(* answered. The module also covers the messages of a request              *)
(* (routes/messages.js), the patients of a client (routes/patients.js) and *)
(* the bearer token of middleware/auth.js.                                 *)
(***************************************************************************)
EXTENDS Integers, FiniteSets, Sequences, TLC

\* ------------------------------------------------------------------ bounds
NumIds == 2        \* identities that hold a token (ids of users and nurses)
MaxReq == 1        \* ServiceRequest documents that can be created
NumProcs == 2      \* HTTP requests that can be in flight at the same time
MaxCalls == 3      \* HTTP requests received in one run, overlapping freely
MaxSeqCalls == 4   \* HTTP requests received in one run, one after another
MaxPatients == 2   \* Patient documents that can be created
MaxListLen == 2    \* length of the patient_ids list of a request body
MaxAllCalls == 3   \* HTTP requests received in one run over all the routes,
                   \* one after another
MaxTokens == 2     \* tokens handed out in one run
MaxReportCalls == 5  \* HTTP requests received in one run that ends in
                     \* overlapping reports
MaxFaultCalls == 3   \* HTTP requests received in one run over a store
                     \* whose operations may fail
MaxCreateCalls == 3  \* HTTP requests received in one run whose create
                     \* bodies carry more than the route asks for

Ids == 1..NumIds
ReqIds == 1..MaxReq
Procs == 1..NumProcs

\* Values a request body can carry.
NoBody == <<>>
EstadoInputs == {"aceptada", "rechazada", "completado"}
NoDoc == "sin documentar"
Docs == {"nota"}
Observaciones == {"obs"}
Recomendaciones == {"rec"}

\* More of the values a request body can carry, for the runs that look at
\* the bodies.
EstadoBodies == EstadoInputs \cup {"pendiente"}
ObservacionesMore == Observaciones \cup {"obs2"}
RecomendacionesMore == Recomendaciones \cup {"rec2"}

VARIABLES
    store,          \* ServiceRequest collection: ReqIds -> document or Absent
    nextId,         \* number of documents created so far
    transactions,   \* Transaction collection: sequence of documents
    call,           \* per in-flight slot: the handler's position and locals
    resp,           \* the answer sent last: [op, caller, id, status]
    okEstado,       \* per document: accept/reject calls received while it was
                    \* pendiente and answered 200
    okPagar,        \* per document: pagar calls answered 200
    left,           \* requests the run can still receive
    body,           \* the JSON body of the answer sent last
    messages,       \* Message collection: sequence of documents
    patients,       \* Patient collection: sequence of documents
    verdict,        \* the ownership check applied last, and what it said
    clock,          \* seconds since the server started
    issued,         \* tokens handed out so far, each with its subject
    guard,          \* what authenticateToken did with the header shown last
    deleted,        \* accounts removed from the users and nurses collections,
                    \* each with the instant of its removal
    received        \* req.body of the POST /service-requests or POST
                    \* /patients received last

\* What no handler of the three routers touches.
aside == <<verdict, clock, issued, guard, deleted, received>>

vars == <<store, nextId, transactions, call, resp, okEstado, okPagar, left,
          body, messages, patients, aside>>

\* ------------------------------------------------------------ record store
Absent == [estado |-> "absent"]

\* Defaults the schema gives a new document.
SchemaDefaults == [estado |-> "pendiente", pago_realizado |-> FALSE]

\* Paths the handlers read and write; the recorded ServiceRequestSchema is of
\* an earlier revision and does not list them. They are taken to be stored
\* paths, unset (false, no text) in a new document.
ExtraPaths ==
    [pago_liberado |-> FALSE, documentacion_servicio |-> NoDoc,
     observaciones |-> NoDoc, recomendaciones |-> NoDoc]

\* new ServiceRequest({user_id: req.userId, nurse_id, patient_ids, ...})
NewRequest(userId, nurse_id, patient_ids) ==
    [user_id |-> userId, nurse_id |-> nurse_id, patient_ids |-> patient_ids]
        @@ SchemaDefaults @@ ExtraPaths

\* A save() that writes the whole document back as the handler holds it.
SaveWhole(stored, loaded, modified) == modified

\* document.save() of a document loaded by findOne: an update keyed on _id
\* alone that sets the paths the handler modified, whatever the stored
\* document has become since it was loaded.
Save(stored, loaded, modified) ==
    [f \in DOMAIN stored |->
        IF modified[f] # loaded[f] THEN modified[f] ELSE stored[f]]

\* ---------------------------------------------------------------- handlers
\* A slot that holds no request.
Idle ==
    [pc |-> "idle", op |-> "none", caller |-> 0, id |-> 0, estado |-> "none",
     doc |-> NoDoc, seen |-> "none", loaded |-> Absent,
     observaciones |-> NoDoc, recomendaciones |-> NoDoc]

\* res.status(code).json(...)
Reply(op, caller, id, code) ==
    [op |-> op, caller |-> caller, id |-> id, status |-> code]

NoReply == Reply("none", 0, 0, 0)

\* res.json({ message: ... }): a body that carries a fixed text only
MessageOnly == [kind |-> "message"]

\* res.json(document)
DocBody(doc) == [kind |-> "document", doc |-> doc]

\* A request is taken by the first free slot (the slots are interchangeable).
CanReceive(p) ==
    /\ call[p].pc = "idle"
    /\ \A q \in Procs : q < p => call[q].pc # "idle"
    /\ left > 0

\* POST /service-requests (the first registered handler answers every POST)
Create(p, caller, nurse_id, patient_ids) ==
    /\ CanReceive(p)
    /\ nextId < MaxReq
    /\ store' = [store EXCEPT ![nextId + 1] =
                   NewRequest(caller, nurse_id, patient_ids)]
    /\ nextId' = nextId + 1
    /\ resp' = Reply("create", caller, nextId + 1, 201)
    /\ body' = DocBody(NewRequest(caller, nurse_id, patient_ids))
    /\ left' = left - 1
    /\ UNCHANGED <<transactions, call, okEstado, okPagar,
                   messages, patients, aside>>

\* What a client can add to the body of POST /service-requests besides the
\* fields the route documents.
Supplied ==
    {NoBody, [estado |-> "completado"], [estado |-> "pagada"],
     [pago_realizado |-> TRUE],
     [estado |-> "aceptada", pago_realizado |-> TRUE]}

CreateBodies ==
    {[nurse_id |-> n, patient_ids |-> <<>>] @@ x : n \in Ids, x \in Supplied}

\* A create that hands the whole body to the model: { ...req.body }
CreateFieldsSpread(reqBody) == reqBody

\* const { nurse_id, patient_ids, detalles, fecha, tarifa } = req.body
CreateFields(reqBody) ==
    [nurse_id |-> reqBody.nurse_id, patient_ids |-> reqBody.patient_ids]

\* POST /service-requests, the body being looked at field by field: the
\* document is built from req.userId and the fields taken from the body,
\* and the schema fills in the rest.
CreateFromBody(p, caller, reqBody) ==
    LET doc == [user_id |-> caller] @@ CreateFields(reqBody)
                  @@ SchemaDefaults @@ ExtraPaths
    IN  /\ CanReceive(p)
        /\ nextId < MaxReq
        /\ reqBody.nurse_id # caller
        /\ store' = [store EXCEPT ![nextId + 1] = doc]
        /\ nextId' = nextId + 1
        /\ resp' = Reply("create", caller, nextId + 1, 201)
        /\ body' = DocBody(doc)
        /\ left' = left - 1
        /\ received' = reqBody
        /\ UNCHANGED <<transactions, call, okEstado, okPagar, messages,
                       patients, verdict, clock, issued, guard, deleted>>

\* The earlier PUT /service-requests/:id, which took any estado.
ValidEstadoAny(estado) == TRUE

\* PUT /service-requests/:id, validation of the body
ValidEstado(estado) == estado \in {"aceptada", "rechazada"}

\* PUT /service-requests/:id, filter of findOneAndUpdate
EstadoFilter(doc, caller) == doc # Absent /\ doc.nurse_id = caller

\* A full replacement of the document by { estado }, as an update without
\* $set would be: every other path goes back to unset.
EstadoReplace(doc, estado) ==
    [f \in DOMAIN doc |->
        IF f = "estado" THEN estado ELSE NewRequest(0, 0, <<>>)[f]]

\* An accept/reject that starts the payment over.
EstadoUpdateResetsPayment(doc, estado) ==
    [doc EXCEPT !.estado = estado, !.pago_realizado = FALSE]

\* PUT /service-requests/:id, update of findOneAndUpdate
EstadoUpdate(doc, estado) == [doc EXCEPT !.estado = estado]

\* PUT /service-requests/:id up to its await: the body is validated and the
\* update is sent to the store. seen remembers the estado the document had
\* when the request arrived.
PutEstadoRecv(p, caller, id, estado) ==
    /\ CanReceive(p)
    /\ IF ValidEstado(estado)
       THEN /\ call' = [call EXCEPT ![p] =
                          [Idle EXCEPT !.pc = "update", !.op = "estado",
                                       !.caller = caller, !.id = id,
                                       !.estado = estado,
                                       !.seen = store[id].estado]]
            /\ resp' = resp
            /\ body' = body
       ELSE /\ call' = call
            /\ resp' = Reply("estado", caller, id, 400)
            /\ body' = MessageOnly
    /\ left' = left - 1
    /\ UNCHANGED <<store, nextId, transactions, okEstado, okPagar,
                   messages, patients, aside>>

\* PUT /service-requests/:id: findOneAndUpdate runs in the store, and the
\* handler answers.
PutEstadoUpdate(p) ==
    /\ call[p].pc = "update" /\ call[p].op = "estado"
    /\ LET c == call[p] IN
       IF EstadoFilter(store[c.id], c.caller)
       THEN /\ store' = [store EXCEPT ![c.id] = EstadoUpdate(@, c.estado)]
            /\ resp' = Reply("estado", c.caller, c.id, 200)
            /\ body' = DocBody(EstadoUpdate(store[c.id], c.estado))
            /\ okEstado' = [okEstado EXCEPT ![c.id] =
                              IF c.seen = "pendiente" THEN @ + 1 ELSE @]
       ELSE /\ store' = store
            /\ resp' = Reply("estado", c.caller, c.id, 404)
            /\ body' = MessageOnly
            /\ okEstado' = okEstado
    /\ call' = [call EXCEPT ![p] = Idle]
    /\ UNCHANGED <<nextId, transactions, okPagar, left,
                   messages, patients, aside>>

\* PUT /service-requests/:id/pagar, filter of findOne
PagarFilter(doc, caller) ==
    doc # Absent /\ doc.user_id = caller /\ doc.pago_realizado = FALSE

\* PUT /service-requests/:id/pagar, the assignment before save()
PagarModify(doc) == [doc EXCEPT !.pago_realizado = TRUE]

\* PUT /service-requests/:id/pagar up to the answer of findOne
PagarFind(p, caller, id) ==
    /\ CanReceive(p)
    /\ IF PagarFilter(store[id], caller)
       THEN /\ call' = [call EXCEPT ![p] =
                          [Idle EXCEPT !.pc = "save", !.op = "pagar",
                                       !.caller = caller, !.id = id,
                                       !.loaded = store[id]]]
            /\ resp' = resp
            /\ body' = body
       ELSE /\ call' = call
            /\ resp' = Reply("pagar", caller, id, 403)
            /\ body' = MessageOnly
    /\ left' = left - 1
    /\ UNCHANGED <<store, nextId, transactions, okEstado, okPagar,
                   messages, patients, aside>>

\* PUT /service-requests/:id/pagar: save() and the answer. The handler
\* writes no Transaction.
PagarSave(p) ==
    /\ call[p].pc = "save" /\ call[p].op = "pagar"
    /\ LET c == call[p] IN
       /\ store' = [store EXCEPT ![c.id] =
                      Save(@, c.loaded, PagarModify(c.loaded))]
       /\ resp' = Reply("pagar", c.caller, c.id, 200)
       /\ body' = DocBody(PagarModify(c.loaded))
       /\ okPagar' = [okPagar EXCEPT ![c.id] = @ + 1]
    /\ call' = [call EXCEPT ![p] = Idle]
    /\ UNCHANGED <<nextId, transactions, okEstado, left,
                   messages, patients, aside>>

\* PUT /service-requests/:id/completar, filter of findOne
CompletarFilter(doc, caller) ==
    doc # Absent /\ doc.nurse_id = caller /\ doc.estado = "pendiente"

\* A completar that releases the payment but forgets the estado.
CompletarModifyKeepsEstado(doc, documentacion_servicio) ==
    [doc EXCEPT !.documentacion_servicio = documentacion_servicio,
                !.pago_liberado = TRUE]

\* A completar that leaves the release of the payment to a later step.
CompletarModifyNoRelease(doc, documentacion_servicio) ==
    [doc EXCEPT !.estado = "completado",
                !.documentacion_servicio = documentacion_servicio]

\* PUT /service-requests/:id/completar, the assignments before save()
CompletarModify(doc, documentacion_servicio) ==
    [doc EXCEPT !.estado = "completado",
                !.documentacion_servicio = documentacion_servicio,
                !.pago_liberado = TRUE]

\* PUT /service-requests/:id/completar up to the answer of findOne
CompletarFind(p, caller, id, documentacion_servicio) ==
    /\ CanReceive(p)
    /\ IF CompletarFilter(store[id], caller)
       THEN /\ call' = [call EXCEPT ![p] =
                          [Idle EXCEPT !.pc = "save", !.op = "completar",
                                       !.caller = caller, !.id = id,
                                       !.doc = documentacion_servicio,
                                       !.loaded = store[id]]]
            /\ resp' = resp
            /\ body' = body
       ELSE /\ call' = call
            /\ resp' = Reply("completar", caller, id, 403)
            /\ body' = MessageOnly
    /\ left' = left - 1
    /\ UNCHANGED <<store, nextId, transactions, okEstado, okPagar,
                   messages, patients, aside>>

\* PUT /service-requests/:id/completar: save() and the answer
CompletarSave(p) ==
    /\ call[p].pc = "save" /\ call[p].op = "completar"
    /\ LET c == call[p] IN
       /\ store' = [store EXCEPT ![c.id] =
                      Save(@, c.loaded, CompletarModify(c.loaded, c.doc))]
       /\ resp' = Reply("completar", c.caller, c.id, 200)
       /\ body' = DocBody(CompletarModify(c.loaded, c.doc))
    /\ call' = [call EXCEPT ![p] = Idle]
    /\ UNCHANGED <<nextId, transactions, okEstado, okPagar, left,
                   messages, patients, aside>>

\* PUT /service-requests/:id/reporte, filter of findOne
ReporteFilter(doc, caller) ==
    doc # Absent /\ doc.nurse_id = caller /\ doc.estado = "completado"

\* PUT /service-requests/:id/reporte, the assignments before save()
ReporteModify(doc, observaciones, recomendaciones) ==
    [doc EXCEPT !.observaciones = observaciones,
                !.recomendaciones = recomendaciones]

\* PUT /service-requests/:id/reporte up to the answer of findOne
ReporteFind(p, caller, id, observaciones, recomendaciones) ==
    /\ CanReceive(p)
    /\ IF ReporteFilter(store[id], caller)
       THEN /\ call' = [call EXCEPT ![p] =
                          [Idle EXCEPT !.pc = "save", !.op = "reporte",
                                       !.caller = caller, !.id = id,
                                       !.observaciones = observaciones,
                                       !.recomendaciones = recomendaciones,
                                       !.loaded = store[id]]]
            /\ resp' = resp
            /\ body' = body
       ELSE /\ call' = call
            /\ resp' = Reply("reporte", caller, id, 403)
            /\ body' = MessageOnly
    /\ left' = left - 1
    /\ UNCHANGED <<store, nextId, transactions, okEstado, okPagar,
                   messages, patients, aside>>

\* PUT /service-requests/:id/reporte: save() and the answer, which carries
\* the two texts of the document in memory
ReporteSave(p) ==
    /\ call[p].pc = "save" /\ call[p].op = "reporte"
    /\ LET c == call[p]
           m == ReporteModify(c.loaded, c.observaciones, c.recomendaciones)
       IN
       /\ store' = [store EXCEPT ![c.id] = Save(@, c.loaded, m)]
       /\ resp' = Reply("reporte", c.caller, c.id, 200)
       /\ body' = [kind |-> "report", observaciones |-> m.observaciones,
                                      recomendaciones |-> m.recomendaciones]
    /\ call' = [call EXCEPT ![p] = Idle]
    /\ UNCHANGED <<nextId, transactions, okEstado, okPagar, left,
                   messages, patients, aside>>

\* -------------------------------------------------------------------- reads
\* GET /service-requests (the first registered handler answers every GET /):
\* the documents that name the caller as nurse
ListFilter(doc, caller) == doc # Absent /\ doc.nurse_id = caller

GetList(p, caller) ==
    /\ CanReceive(p)
    /\ resp' = Reply("list", caller, 0, 200)
    /\ body' = [kind |-> "list",
                docs |-> {<<i, store[i]>> : i \in
                            {j \in ReqIds : ListFilter(store[j], caller)}}]
    /\ left' = left - 1
    /\ UNCHANGED <<store, nextId, transactions, call, okEstado, okPagar,
                   messages, patients, aside>>

\* An estado-pago that answers whoever asks.
EstadoPagoAnyCaller(doc, caller) == doc # Absent

\* GET /service-requests/:id/estado-pago, filter of findOne
EstadoPagoFilter(doc, caller) == doc # Absent /\ doc.nurse_id = caller

\* GET /service-requests/:id/estado-pago
GetEstadoPago(p, caller, id) ==
    /\ CanReceive(p)
    /\ IF EstadoPagoFilter(store[id], caller)
       THEN /\ resp' = Reply("estado-pago", caller, id, 200)
            /\ body' = [kind |-> "estado-pago",
                        pago_realizado |-> store[id].pago_realizado,
                        pago_liberado |-> store[id].pago_liberado,
                        estado |-> store[id].estado]
       ELSE /\ resp' = Reply("estado-pago", caller, id, 403)
            /\ body' = MessageOnly
    /\ left' = left - 1
    /\ UNCHANGED <<store, nextId, transactions, call, okEstado, okPagar,
                   messages, patients, aside>>

\* A detail read that does not look at the estado.
DetalleAnyEstado(doc, caller) == doc # Absent /\ doc.user_id = caller

\* GET /service-requests/:id, filter of findOne
DetalleFilter(doc, caller) ==
    doc # Absent /\ doc.user_id = caller /\ doc.estado = "aceptada"

\* GET /service-requests/:id. When the request is found the handler goes on
\* to Nurse.findById; the module binds no Nurse (it requires express, the
\* ServiceRequest model and the middleware only), the reference throws, and
\* the catch answers 500.
GetDetalle(p, caller, id) ==
    /\ CanReceive(p)
    /\ resp' = Reply("detalle", caller, id,
                     IF DetalleFilter(store[id], caller) THEN 500 ELSE 404)
    /\ body' = MessageOnly
    /\ left' = left - 1
    /\ UNCHANGED <<store, nextId, transactions, call, okEstado, okPagar,
                   messages, patients, aside>>

\* ----------------------------------------------------------------- messages
\* A participant check that forgets the nurse.
ParticipantClientOnly(doc, caller) == doc # Absent /\ doc.user_id = caller

\* The participant check of routes/messages.js:
\* { _id, $or: [{ user_id: req.userId }, { nurse_id: req.userId }] }
ParticipantFilter(doc, caller) ==
    doc # Absent /\ (doc.user_id = caller \/ doc.nurse_id = caller)

\* new Message({ service_request_id, sender_id: req.userId, ... })
NewMessage(service_request_id, sender_id) ==
    [service_request_id |-> service_request_id, sender_id |-> sender_id]

\* POST /messages up to the answer of findOne
MensajeFind(p, caller, id) ==
    /\ CanReceive(p)
    /\ IF ParticipantFilter(store[id], caller)
       THEN /\ call' = [call EXCEPT ![p] =
                          [Idle EXCEPT !.pc = "save", !.op = "mensaje",
                                       !.caller = caller, !.id = id]]
            /\ resp' = resp
            /\ body' = body
       ELSE /\ call' = call
            /\ resp' = Reply("mensaje", caller, id, 403)
            /\ body' = MessageOnly
    /\ left' = left - 1
    /\ UNCHANGED <<store, nextId, transactions, okEstado, okPagar,
                   messages, patients, aside>>

\* POST /messages: message.save() and the answer
MensajeSave(p) ==
    /\ call[p].pc = "save" /\ call[p].op = "mensaje"
    /\ LET c == call[p] IN
       /\ messages' = Append(messages, NewMessage(c.id, c.caller))
       /\ resp' = Reply("mensaje", c.caller, c.id, 201)
       /\ body' = DocBody(NewMessage(c.id, c.caller))
    /\ call' = [call EXCEPT ![p] = Idle]
    /\ UNCHANGED <<store, nextId, transactions, okEstado, okPagar, left,
                   patients, aside>>

\* Message.find({ service_request_id }).sort({ timestamp: 1 })
MessagesOf(service_request_id) ==
    SelectSeq(messages, LAMBDA m : m.service_request_id = service_request_id)

\* GET /messages/:service_request_id up to the answer of findOne
HistorialFind(p, caller, id) ==
    /\ CanReceive(p)
    /\ IF ParticipantFilter(store[id], caller)
       THEN /\ call' = [call EXCEPT ![p] =
                          [Idle EXCEPT !.pc = "list", !.op = "historial",
                                       !.caller = caller, !.id = id]]
            /\ resp' = resp
            /\ body' = body
       ELSE /\ call' = call
            /\ resp' = Reply("historial", caller, id, 403)
            /\ body' = MessageOnly
    /\ left' = left - 1
    /\ UNCHANGED <<store, nextId, transactions, okEstado, okPagar,
                   messages, patients, aside>>

\* GET /messages/:service_request_id: Message.find and the answer
HistorialList(p) ==
    /\ call[p].pc = "list" /\ call[p].op = "historial"
    /\ LET c == call[p] IN
       /\ resp' = Reply("historial", c.caller, c.id, 200)
       /\ body' = [kind |-> "messages", list |-> MessagesOf(c.id)]
    /\ call' = [call EXCEPT ![p] = Idle]
    /\ UNCHANGED <<store, nextId, transactions, okEstado, okPagar, left,
                   messages, patients, aside>>

\* ---------------------------------------------------------------- patients
PatientIds == 1..MaxPatients

\* The patient_ids lists a request body can carry: any ids, in any order,
\* repeated or not, of patients that exist or not.
PatientLists == UNION {[1..n -> PatientIds] : n \in 0..MaxListLen}

\* POST /patients: new Patient({...req.body, usuario_id: req.userId}), save
CreatePatient(p, caller) ==
    /\ CanReceive(p)
    /\ Len(patients) < MaxPatients
    /\ patients' = Append(patients, [usuario_id |-> caller])
    /\ resp' = Reply("paciente", caller, Len(patients) + 1, 201)
    /\ body' = DocBody([usuario_id |-> caller])
    /\ left' = left - 1
    /\ UNCHANGED <<store, nextId, transactions, call, okEstado, okPagar,
                   messages, aside>>

\* The bodies of POST /patients: the data of the patient, with or without a
\* usuario_id of the client's choosing.
PatientBodies ==
    {[name |-> "paciente"]}
      \cup {[name |-> "paciente", usuario_id |-> i] : i \in Ids}

\* A create that lets the body have the last word:
\* { usuario_id: req.userId, ...req.body }
PatientFieldsBodyWins(reqBody, userId) == reqBody @@ [usuario_id |-> userId]

\* { ...req.body, usuario_id: req.userId }: the later key wins
PatientFields(reqBody, userId) == [usuario_id |-> userId] @@ reqBody

\* POST /patients, the body being looked at field by field
CreatePatientFromBody(p, caller, reqBody) ==
    /\ CanReceive(p)
    /\ Len(patients) < MaxPatients
    /\ patients' = Append(patients, PatientFields(reqBody, caller))
    /\ resp' = Reply("paciente", caller, Len(patients) + 1, 201)
    /\ body' = DocBody(PatientFields(reqBody, caller))
    /\ left' = left - 1
    /\ received' = reqBody
    /\ UNCHANGED <<store, nextId, transactions, call, okEstado, okPagar,
                   messages, verdict, clock, issued, guard, deleted>>

\* Patient.find({ usuario_id: req.userId })
PatientsOf(userId) ==
    SelectSeq(patients, LAMBDA doc : doc.usuario_id = userId)

\* GET /patients: the documents found, each without its _id
GetPatients(p, caller) ==
    /\ CanReceive(p)
    /\ resp' = Reply("pacientes", caller, 0, 200)
    /\ body' = [kind |-> "list", docs |-> PatientsOf(caller)]
    /\ left' = left - 1
    /\ UNCHANGED <<store, nextId, transactions, call, okEstado, okPagar,
                   messages, patients, aside>>

\* Patient.find({ _id: { $in: patient_ids }, usuario_id: req.userId }): the
\* documents that match, each of them once
ValidPatients(patient_ids, userId) ==
    {k \in DOMAIN patients :
        /\ \E j \in DOMAIN patient_ids : patient_ids[j] = k
        /\ patients[k].usuario_id = userId}

\* The ownership check of the second POST /service-requests handler:
\* it passes unless validPatients.length !== patient_ids.length
OwnershipCheck(patient_ids, userId) ==
    Cardinality(ValidPatients(patient_ids, userId)) = Len(patient_ids)

NoVerdict == [caller |-> 0, patient_ids |-> <<>>, accepted |-> FALSE]

\* The ownership check applied to a caller and a list, on the Patient
\* collection as it stands. (The handler that holds the check is registered
\* second for its path, so that no request is dispatched to it.)
CheckOwnership(caller, patient_ids) ==
    /\ verdict' = [caller |-> caller, patient_ids |-> patient_ids,
                   accepted |-> OwnershipCheck(patient_ids, caller)]
    /\ UNCHANGED <<store, nextId, transactions, call, resp, okEstado, okPagar,
                   left, body, messages, patients, clock, issued, guard,
                   deleted, received>>

\* -------------------------------------------------------------------- token
\* expiresIn: '1h', in seconds
ExpiresIn == 3600

\* The instants at which something happens.
Instants == {0, 1, ExpiresIn - 1, ExpiresIn, ExpiresIn + 1, ExpiresIn + 2}

\* The key the server signs with, and a key that is not the server's.
Secret == "clave del servidor"
OtherKey == "otra clave"

\* The accounts: users register and log in through routes/users.js (role
\* 'usuario'), nurses through routes/nurses.js (role 'enfermero'). The odd
\* ids are taken to be users, the even ids nurses.
RoleOf(id) == IF id % 2 = 1 THEN "usuario" ELSE "enfermero"

\* A payload value that is an id (a string in the JSON of the token).
Scalar(id) == [id |-> id]

\* The signature of jsonwebtoken: it depends on the payload and the key.
Sign(payload, key) == [payload |-> payload, key |-> key]

\* generateToken(userId): jwt.sign({ userId }, secret, { expiresIn: '1h' })
GenerateToken(userId) ==
    LET payload == [userId |-> userId, iat |-> clock, exp |-> clock + ExpiresIn]
    IN  [payload |-> payload, sig |-> Sign(payload, Secret)]

\* POST /users/register and POST /nurses/register: generateToken(_id)
Register(id) ==
    /\ Cardinality(issued) < MaxTokens
    /\ \A e \in issued : e.subject.id # id
    /\ issued' = issued \cup
          {[subject |-> [id |-> id, role |-> RoleOf(id)], via |-> "register",
            token |-> GenerateToken(Scalar(id))]}
    /\ UNCHANGED <<store, nextId, transactions, call, resp, okEstado, okPagar,
                   left, body, messages, patients, verdict, clock, guard,
                   deleted, received>>

\* POST /users/login and POST /nurses/login:
\* generateToken({ userId: _id, role })
Login(id) ==
    /\ Cardinality(issued) < MaxTokens
    /\ \E e \in issued : e.subject.id = id
    /\ \A d \in deleted : d.id # id
    /\ issued' = issued \cup
          {[subject |-> [id |-> id, role |-> RoleOf(id)], via |-> "login",
            token |-> GenerateToken([userId |-> Scalar(id),
                                     role |-> RoleOf(id)])]}
    /\ UNCHANGED <<store, nextId, transactions, call, resp, okEstado, okPagar,
                   left, body, messages, patients, verdict, clock, guard,
                   deleted, received>>

\* Time passes.
Tick(t) ==
    /\ t > clock
    /\ clock' = t
    /\ UNCHANGED <<store, nextId, transactions, call, resp, okEstado, okPagar,
                   left, body, messages, patients, verdict, issued, guard,
                   deleted, received>>

\* An Authorization header is the sequence of its words; no header, no words.
NoToken == [undefined |-> TRUE]
Garbage == [garbage |-> TRUE]

\* A token signed by somebody who does not hold the server's key.
Forge(token) == [token EXCEPT !.sig = Sign(token.payload, OtherKey)]

\* What somebody who holds a token and not the server's key can make of it:
\* the token signed anew with another key, and the token with its signature
\* kept and its payload rewritten (another subject, a later expiry).
Alterations(token) ==
    {Forge(token)}
      \cup {[token EXCEPT !.payload.userId = Scalar(i)] :
               i \in {j \in Ids : Scalar(j) # token.payload.userId}}
      \cup {[token EXCEPT !.payload.exp = @ + ExpiresIn]}

Headers ==
    {<<>>, <<"Bearer">>, <<"Basic", Garbage>>}
      \cup {<<"Bearer", e.token>> : e \in issued}
      \cup {<<"Bearer", a>> : a \in UNION {Alterations(e.token) : e \in issued}}

\* req.headers['authorization'] && req.headers['authorization'].split(' ')[1]
TokenOf(header) == IF Len(header) >= 2 THEN header[2] ELSE NoToken

\* A guard that reads the payload and does not look at the signature, as
\* jwt.decode does.
DecodeError(token) ==
    IF "sig" \notin DOMAIN token THEN "JsonWebTokenError"
    ELSE IF clock >= token.payload.exp THEN "TokenExpiredError"
    ELSE "none"

\* jwt.verify(token, secret, callback): the err the callback gets
VerifyError(token) ==
    IF "sig" \notin DOMAIN token THEN "JsonWebTokenError"
    ELSE IF token.sig # Sign(token.payload, Secret) THEN "JsonWebTokenError"
    ELSE IF clock >= token.payload.exp THEN "TokenExpiredError"
    ELSE "none"

\* res.sendStatus(code): the handler behind the guard does not run
Rejected(code, err) ==
    [next |-> FALSE, status |-> code, error |-> err,
     userId |-> NoToken, userRole |-> "undefined", decoded |-> NoToken]

\* The account a payload names: registration signs the id, login signs
\* { userId, role }.
SubjectOf(payload) ==
    IF "userId" \in DOMAIN payload.userId THEN payload.userId.userId.id
    ELSE payload.userId.id

\* A guard that looks the account of the token up and turns the request away
\* when the account is gone.
AuthenticateTokenWithLookup(header) ==
    LET token == TokenOf(header) IN
    IF token = NoToken THEN Rejected(401, "none")
    ELSE IF VerifyError(token) # "none" THEN Rejected(403, VerifyError(token))
    ELSE IF \E d \in deleted : d.id = SubjectOf(token.payload)
         THEN Rejected(403, "none")
    ELSE [next |-> TRUE, status |-> 0, error |-> "none",
          userId |-> token.payload.userId, userRole |-> "undefined",
          decoded |-> token.payload]

\* authenticateToken(req, res, next)
AuthenticateToken(header) ==
    LET token == TokenOf(header) IN
    IF token = NoToken THEN Rejected(401, "none")
    ELSE IF VerifyError(token) # "none" THEN Rejected(403, VerifyError(token))
    ELSE [next |-> TRUE, status |-> 0, error |-> "none",
          userId |-> token.payload.userId, userRole |-> "undefined",
          decoded |-> token.payload]

NoGuard == [header |-> <<>>, at |-> 0] @@ Rejected(0, "none")

\* A request with this header reaches a route behind authenticateToken.
Authenticate(header) ==
    /\ guard' = [header |-> header, at |-> clock] @@ AuthenticateToken(header)
    /\ UNCHANGED <<store, nextId, transactions, call, resp, okEstado, okPagar,
                   left, body, messages, patients, verdict, clock, issued,
                   deleted, received>>

\* The document of an account is removed from its collection. No route of
\* the server does this; it is done to the database from outside.
DeleteIdentity(id) ==
    /\ \E e \in issued : e.subject.id = id
    /\ \A d \in deleted : d.id # id
    /\ deleted' = deleted \cup {[id |-> id, at |-> clock]}
    /\ UNCHANGED <<store, nextId, transactions, call, resp, okEstado, okPagar,
                   left, body, messages, patients, verdict, clock, issued,
                   guard, received>>

\* ----------------------------------------------------------- store failures
\* res.status(400).json({ message: ..., error: error.message }) of a catch
ErrorBody == [kind |-> "error"]

\* The operations of the store a transition awaits first: save() of POST /,
\* findOne of pagar, completar and reporte.
FirstAwaits == {"create", "pagar", "completar", "reporte"}

\* The first store operation of a handler rejects: nothing was read or
\* written, and the catch block of the handler answers.
FindRejects(p, op, caller, id) ==
    /\ CanReceive(p)
    /\ resp' = Reply(op, caller, id, 400)
    /\ body' = ErrorBody
    /\ left' = left - 1
    /\ UNCHANGED <<store, nextId, transactions, call, okEstado, okPagar,
                   messages, patients, aside>>

\* The store operation a handler waits for (findOneAndUpdate of PUT /:id,
\* save() of pagar, completar and reporte) rejects without having written,
\* and the catch block of the handler answers.
SaveRejects(p) ==
    /\ call[p].pc \in {"update", "save"}
    /\ call[p].op \in {"estado", "pagar", "completar", "reporte"}
    /\ resp' = Reply(call[p].op, call[p].caller, call[p].id, 400)
    /\ body' = ErrorBody
    /\ call' = [call EXCEPT ![p] = Idle]
    /\ UNCHANGED <<store, nextId, transactions, okEstado, okPagar, left,
                   messages, patients, aside>>

StoreRejects(p) ==
    \/ \E caller \in Ids : FindRejects(p, "create", caller, 0)
    \/ \E op \in FirstAwaits \ {"create"}, caller \in Ids, id \in ReqIds :
          FindRejects(p, op, caller, id)
    \/ SaveRejects(p)

\* ------------------------------------------------------------ specification
\* The server has started: empty collections, nothing in flight. budget is
\* the number of requests the run will receive.
Start(budget) ==
    /\ store = [i \in ReqIds |-> Absent]
    /\ nextId = 0
    /\ transactions = <<>>
    /\ call = [p \in Procs |-> Idle]
    /\ resp = NoReply
    /\ okEstado = [i \in ReqIds |-> 0]
    /\ okPagar = [i \in ReqIds |-> 0]
    /\ left = budget
    /\ body = MessageOnly
    /\ messages = <<>>
    /\ patients = <<>>
    /\ verdict = NoVerdict
    /\ clock = 0
    /\ issued = {}
    /\ guard = NoGuard
    /\ deleted = {}
    /\ received = NoBody

Init == Start(MaxCalls)

\* One step of a handler of routes/serviceRequests.js running in, or
\* received by, slot p, the requests being sent by the identities in callers
\* with bodies that carry the given values. A request is created by one
\* identity for another one (the nurse it names).
TransitionsOn(p, callers, estados, obs, recs) ==
    \/ \E caller \in Ids : \E nurse_id \in Ids \ {caller} :
          Create(p, caller, nurse_id, <<>>)
    \/ \E caller \in callers, id \in ReqIds, estado \in estados :
          PutEstadoRecv(p, caller, id, estado)
    \/ PutEstadoUpdate(p)
    \/ \E caller \in callers, id \in ReqIds : PagarFind(p, caller, id)
    \/ PagarSave(p)
    \/ \E caller \in callers, id \in ReqIds, d \in Docs :
          CompletarFind(p, caller, id, d)
    \/ CompletarSave(p)
    \/ \E caller \in callers, id \in ReqIds :
          \E o \in obs, r \in recs :
             ReporteFind(p, caller, id, o, r)
    \/ ReporteSave(p)

Transitions(p, callers) ==
    TransitionsOn(p, callers, EstadoInputs, Observaciones, Recomendaciones)

Step(p) == Transitions(p, Ids)

\* Requests are handled independently and concurrently.
Next == \E p \in Procs : Step(p)

Spec == Init /\ [][Next]_vars

\* The same handlers when every request is answered before the next one is
\* sent (a single client driving a scenario): only the first slot is used.
InitSeq == Start(MaxSeqCalls)

NextSeq == Step(1)

SpecSeq == InitSeq /\ [][NextSeq]_vars

\* The transitions, one call after another, with every estado a body can
\* carry.
NextBodies ==
    TransitionsOn(1, Ids, EstadoBodies, Observaciones, Recomendaciones)

SpecBodies == InitSeq /\ [][NextBodies]_vars

\* The transitions, overlapping freely, with reports that differ.
InitReports == Start(MaxReportCalls)

NextReports ==
    \E p \in Procs :
        TransitionsOn(p, Ids, {"aceptada"}, ObservacionesMore,
                      RecomendacionesMore)

SpecReports == InitReports /\ [][NextReports]_vars

\* An identity that holds a token and is party to no request.
Outsider == NumIds + 1

Callers == Ids \cup {Outsider}

\* One step of a handler that reads a request or its messages, or sends a
\* message.
ReadsAndMessages(p, callers) ==
    \/ \E caller \in callers : GetList(p, caller)
    \/ \E caller \in callers, id \in ReqIds : GetEstadoPago(p, caller, id)
    \/ \E caller \in callers, id \in ReqIds : GetDetalle(p, caller, id)
    \/ \E caller \in callers, id \in ReqIds : MensajeFind(p, caller, id)
    \/ MensajeSave(p)
    \/ \E caller \in callers, id \in ReqIds : HistorialFind(p, caller, id)
    \/ HistorialList(p)

\* Every operation on the requests and their messages, sent by the parties
\* and by the outsider, each answered before the next one is sent.
StepAll(p) == Transitions(p, Callers) \/ ReadsAndMessages(p, Callers)

InitAll == Start(MaxAllCalls)

NextAll == StepAll(1)

SpecAll == InitAll /\ [][NextAll]_vars

\* Accounts are opened, tokens are handed out and shown, time passes.
InitAuth == Start(0)

NextAuth ==
    \/ \E id \in Ids : Register(id)
    \/ \E id \in Ids : Login(id)
    \/ \E t \in Instants : Tick(t)
    \/ \E header \in Headers : Authenticate(header)

SpecAuth == InitAuth /\ [][NextAuth]_vars

\* The lifecycle, one request at a time, the requests being created from
\* bodies that carry more than the route asks for.
InitCreate == Start(MaxCreateCalls)

NextCreate ==
    \/ \E caller \in Ids, reqBody \in CreateBodies :
          CreateFromBody(1, caller, reqBody)
    \/ NextBodies

SpecCreate == InitCreate /\ [][NextCreate]_vars

\* Accounts are opened and removed, the tokens handed out are shown, time
\* passes.
NextRevoke ==
    \/ \E id \in Ids : Register(id)
    \/ \E id \in Ids : Login(id)
    \/ \E id \in Ids : DeleteIdentity(id)
    \/ \E t \in Instants : Tick(t)
    \/ \E e \in issued : Authenticate(<<"Bearer", e.token>>)

SpecRevoke == InitAuth /\ [][NextRevoke]_vars

\* The clients register their patients and create requests that name
\* patients; the ownership check is applied to callers and lists.
InitPatients == Start(MaxSeqCalls)

NextPatients ==
    \/ \E caller \in Ids : CreatePatient(1, caller)
    \/ \E caller \in Ids : \E nurse_id \in Ids \ {caller} :
          \E patient_ids \in PatientLists :
             Create(1, caller, nurse_id, patient_ids)
    \/ \E caller \in Ids, patient_ids \in PatientLists :
          CheckOwnership(caller, patient_ids)

SpecPatients == InitPatients /\ [][NextPatients]_vars

\* The router of routes/patients.js: patients are stored from bodies that
\* may name an owner, and listed.
NextPatientBodies ==
    \/ \E caller \in Ids, reqBody \in PatientBodies :
          CreatePatientFromBody(1, caller, reqBody)
    \/ \E caller \in Ids : GetPatients(1, caller)

SpecPatientBodies == InitPatients /\ [][NextPatientBodies]_vars

\* The transitions, one request at a time, over a store whose operations
\* may reject.
InitFaults == Start(MaxFaultCalls)

NextFaults ==
    \/ TransitionsOn(1, Ids, {"aceptada"}, Observaciones, Recomendaciones)
    \/ StoreRejects(1)

SpecFaults == InitFaults /\ [][NextFaults]_vars

\* ------------------------------------------------------------------ claims
Exists(i) == store[i] # Absent

\* Slot p holds a request of handler op on document i and answers it in
\* this step.
Answers(p, op, i) ==
    /\ call[p].op = op /\ call[p].id = i
    /\ call'[p] = Idle

\* Transaction documents that reference ServiceRequest i.
TransactionsOf(i) ==
    {k \in DOMAIN transactions : transactions[k].service_request_id = i}

\* C1: of the accept/reject calls the assigned nurse sent while the request
\* was pendiente (so that they overlap), exactly one is answered 200: two of
\* them are never both answered 200.
C1_OneAcceptRejectWins == \A i \in ReqIds : okEstado[i] <= 1

\* C2: an accept/reject call applied to a request whose estado is no longer
\* pendiente is denied and leaves the document as it was.
C2_AcceptRejectOnlyFromPending ==
    [][\A p \in Procs, i \in ReqIds :
          (Answers(p, "estado", i) /\ Exists(i)
             /\ store[i].estado # "pendiente")
          => (store'[i] = store[i] /\ resp'.status # 200)]_vars

\* C3: the estado of a stored request changes only pendiente -> aceptada,
\* pendiente -> rechazada and aceptada -> completado; rechazada and
\* completado are never left.
AllowedTransitions ==
    {<<"pendiente", "aceptada">>, <<"pendiente", "rechazada">>,
     <<"aceptada", "completado">>}

C3_LifecycleTransitions ==
    [][\A i \in ReqIds :
          (Exists(i) /\ store'[i].estado # store[i].estado)
          => <<store[i].estado, store'[i].estado>> \in AllowedTransitions]_vars

\* C4: in the scenario create, accept, collect-payment, complete, run one
\* call after another, the complete call of the assigned nurse that follows
\* the client's successful payment of the accepted request is answered 200
\* and leaves the request completado with the payment released.
C4_ScenarioCompletes ==
    [][\A i \in ReqIds :
          (/\ Exists(i)
           /\ store[i].estado = "aceptada"
           /\ resp = Reply("pagar", store[i].user_id, i, 200)
           /\ resp'.op = "completar" /\ resp'.id = i
           /\ resp'.caller = store[i].nurse_id)
          => (/\ resp'.status = 200
              /\ store'[i].estado = "completado"
              /\ store'[i].pago_liberado)]_vars

\* C5: a complete call is answered 200 only when the caller is the assigned
\* nurse and the request is aceptada; on a request in any other estado it
\* is answered 403 and changes nothing.
C5_CompleteOnlyFromAccepted ==
    [][\A p \in Procs, i \in ReqIds :
          Answers(p, "completar", i)
          => \/ /\ store[i].estado = "aceptada"
                /\ store[i].nurse_id = call[p].caller
             \/ /\ resp'.status = 403
                /\ store' = store]_vars

\* C6: pago_realizado goes from false to true only on a request whose estado
\* is aceptada or completado.
C6_CollectOnlyWhenAccepted ==
    [][\A i \in ReqIds :
          (Exists(i) /\ ~store[i].pago_realizado /\ store'[i].pago_realizado)
          => store'[i].estado \in {"aceptada", "completado"}]_vars

\* C7: at most one collect-payment call per request is answered 200.
C7_CollectAtMostOnce == \A i \in ReqIds : okPagar[i] <= 1

\* C8: a request has exactly one Transaction if its pago_realizado is true
\* and none otherwise.
C8_OneTransactionPerPayment ==
    \A i \in ReqIds :
        Exists(i) =>
            Cardinality(TransactionsOf(i)) =
                (IF store[i].pago_realizado THEN 1 ELSE 0)

\* C9: pago_liberado becomes true only in the step in which a complete call
\* on that request is answered 200, and that step leaves the request
\* completado.
C9_ReleaseOnlyOnComplete ==
    [][\A i \in ReqIds :
          (Exists(i) /\ ~store[i].pago_liberado /\ store'[i].pago_liberado)
          => /\ store'[i].estado = "completado"
             /\ resp' = Reply("completar", store[i].nurse_id, i, 200)
             /\ \E p \in Procs : Answers(p, "completar", i)]_vars

\* A complete call has just been answered 200 and the payment is released.
C9_Witness ==
    \E i \in ReqIds :
        /\ Exists(i)
        /\ store[i].pago_liberado
        /\ resp = Reply("completar", store[i].nurse_id, i, 200)

C11_NoStaleCommit ==
    [][\A p \in Procs, i \in ReqIds :
          /\ Answers(p, "completar", i) /\ call[p].pc = "save"
                => CompletarFilter(store[i], call[p].caller)
          /\ Answers(p, "pagar", i) /\ call[p].pc = "save"
                => PagarFilter(store[i], call[p].caller)
          /\ Answers(p, "reporte", i) /\ call[p].pc = "save"
                => ReporteFilter(store[i], call[p].caller)]_vars

\* Every id of the list is the id of a stored patient whose owner is userId.
AllOwned(patient_ids, userId) ==
    \A j \in DOMAIN patient_ids :
        /\ patient_ids[j] \in DOMAIN patients
        /\ patients[patient_ids[j]].usuario_id = userId

\* C12: every stored request names only patients owned by its client: a
\* create call that names a patient the caller does not own is answered 403
\* and stores nothing, and a create call answered 201 stores a request
\* whose estado is pendiente.
C12_CreatedWithOwnedPatients ==
    /\ \A i \in ReqIds :
          Exists(i) => AllOwned(store[i].patient_ids, store[i].user_id)
    /\ (resp.op = "create" /\ resp.status = 201)
          => store[resp.id].estado = "pendiente"

\* C13: the ownership check accepts a list exactly when every id of the list
\* is the id of a patient owned by the caller, also for a list that repeats
\* an id and for the empty list.
C13_OwnershipCheckExact ==
    [][verdict' # verdict
          => (verdict'.accepted
                 <=> AllOwned(verdict'.patient_ids, verdict'.caller))]_vars

\* C14: create and collect-payment are answered with success only to a
\* caller whose role is usuario (client), and accept/reject, complete and
\* file-report only to a caller whose role is enfermero (nurse).
C14_RoleRestricted ==
    resp.status \in {200, 201} =>
        /\ resp.op \in {"create", "pagar"} => RoleOf(resp.caller) = "usuario"
        /\ resp.op \in {"estado", "completar", "reporte"}
              => RoleOf(resp.caller) = "enfermero"

\* C15: no operation (accept/reject, collect-payment, complete, file-report,
\* message send, the reads) changes the user_id or the nurse_id of a stored
\* request.
C15_PartiesNeverChange ==
    [][\A i \in ReqIds :
          Exists(i) => /\ store'[i].user_id = store[i].user_id
                       /\ store'[i].nurse_id = store[i].nurse_id]_vars

\* A request went through complete and file-report, and its parties are
\* the two identities that its creation named.
C15_Witness ==
    \E i \in ReqIds :
        /\ Exists(i)
        /\ store[i].pago_liberado
        /\ store[i].observaciones # NoDoc
        /\ store[i].user_id \in Ids /\ store[i].nurse_id \in Ids

\* The role a verified payload carries, if it carries one.
PayloadRole(payload) ==
    IF "role" \in DOMAIN payload THEN payload.role ELSE "undefined"

\* C16: a token handed out for (id, role) at registration or at login, and
\* shown less than one hour later, verifies to that id and that role, and
\* req.userId is the id; shown one hour later or more, it is rejected as
\* expired.
C16_TokenRoundTrip ==
    \A e \in issued :
        guard.header = <<"Bearer", e.token>> =>
            IF guard.at < e.token.payload.iat + ExpiresIn
            THEN /\ guard.next
                 /\ guard.userId = Scalar(e.subject.id)
                 /\ PayloadRole(guard.decoded) = e.subject.role
            ELSE /\ ~guard.next
                 /\ guard.error = "TokenExpiredError"

\* C17: when the guard does not let a request through (no header, a header
\* without a token, a token that is expired or not signed by the server),
\* it answers 401, and never 403.
C17_GuardAnswers401 ==
    guard # NoGuard => (guard.next \/ guard.status = 401)

\* C18: when the guard lets a request through, req.userRole is the role the
\* token was handed out with.
C18_GuardAttachesRole ==
    \A e \in issued :
        (guard.header = <<"Bearer", e.token>> /\ guard.next)
            => guard.userRole = e.subject.role

\* Identity c is the client or the nurse of stored request i.
IsParty(i, c) ==
    Exists(i) /\ (c = store[i].user_id \/ c = store[i].nurse_id)

\* The operations that name a request by its id.
RequestOps ==
    {"estado", "pagar", "completar", "reporte", "estado-pago", "detalle",
     "mensaje", "historial"}

\* What a caller that is no party is answered, per operation: 403, but 404
\* from accept/reject and from the detail read, and 400 from an accept/reject
\* whose estado is not recognised.
DeniedStatus(op) ==
    CASE op = "estado" -> {400, 404}
      [] op = "detalle" -> {404}
      [] OTHER -> {403}

\* C19: an identity that is neither the client nor the nurse of a stored
\* request cannot change it and learns nothing of it: whatever it sends on
\* that id is denied with an answer fixed by the operation alone (a status
\* and a text), the request and its messages stay as they are, and the list
\* it gets does not hold the request.
C19_NonParticipantLearnsNothing ==
    [][\A i \in ReqIds :
          (Exists(i) /\ resp'.caller # 0 /\ ~IsParty(i, resp'.caller))
          => /\ store'[i] = store[i]
             /\ MessagesOf(i)' = MessagesOf(i)
             /\ (resp'.op \in RequestOps /\ resp'.id = i)
                   => /\ resp'.status \in DeniedStatus(resp'.op)
                      /\ body' = MessageOnly
             /\ resp'.op = "list"
                   => \A e \in body'.docs : e[1] # i]_vars

\* The outsider asked for the payment state of a request that has been
\* accepted, rejected or completed, and was answered.
C19_Witness ==
    \E i \in ReqIds :
        /\ Exists(i)
        /\ store[i].estado # "pendiente"
        /\ resp = Reply("estado-pago", Outsider, i, 403)

\* C20: a message send or history read on a request is let through exactly
\* when the caller is the client or the nurse of the request; any other
\* caller is answered 403, and then no message is stored and none returned.
C20_ParticipantCheck ==
    [][\A i \in ReqIds :
          (/\ resp' # resp \/ messages' # messages
           /\ resp'.op \in {"mensaje", "historial"} /\ resp'.id = i)
          => IF IsParty(i, resp'.caller)
             THEN /\ resp'.op = "mensaje"
                        => /\ resp'.status = 201
                           /\ messages' =
                                 Append(messages, NewMessage(i, resp'.caller))
                  /\ resp'.op = "historial"
                        => /\ resp'.status = 200
                           /\ body'.list = MessagesOf(i)
                           /\ messages' = messages
             ELSE /\ resp'.status = 403
                  /\ messages' = messages
                  /\ body' = MessageOnly]_vars

\* The nurse of a request read its history and got the messages sent so far.
C20_Witness ==
    \E i \in ReqIds :
        /\ Exists(i)
        /\ resp = Reply("historial", store[i].nurse_id, i, 200)
        /\ body.kind = "messages"
        /\ Len(body.list) > 0

\* The party of stored request i that an operation is for: the nurse for
\* accept/reject, complete, file-report and the payment state, the client
\* for collect-payment and the detail read, either for the messages.
HasRights(op, i, c) ==
    CASE op \in {"estado", "completar", "reporte", "estado-pago"}
           -> c = store[i].nurse_id
      [] op \in {"pagar", "detalle"} -> c = store[i].user_id
      [] OTHER -> IsParty(i, c)

\* C21: a call on a request that exists, sent by an identity without the
\* right to the operation, is refused with 403 (400 when its body is the
\* reason), and never with 404.
C21_ExistingIsForbiddenNotMissing ==
    \A i \in ReqIds :
        (/\ Exists(i)
         /\ resp.op \in RequestOps /\ resp.id = i
         /\ ~HasRights(resp.op, i, resp.caller))
        => resp.status \in {400, 403}

\* The two estados that accept/reject recognises.
Recognised == {"aceptada", "rechazada"}

\* C22: an accept/reject call whose estado is not aceptada or rechazada is
\* answered 400 when it arrives, before any query is sent to the store, and
\* changes nothing: only a recognised estado is ever sent to the store, and
\* accept/reject never leaves a request with another estado (completado or
\* pendiente, say).
C22_UnrecognisedEstadoIsInvalid ==
    [][/\ \A p \in Procs :
             (call[p].pc = "idle" /\ call'[p].op = "estado")
                => call'[p].estado \in Recognised
       /\ (left' < left /\ call' = call /\ resp'.op = "estado")
             => (resp'.status = 400 /\ store' = store)
       /\ \A i \in ReqIds :
             (Exists(i) /\ resp'.op = "estado" /\ store'[i] # store[i])
                => store'[i].estado \in Recognised]_vars

\* An accept/reject call was answered 400 on a request that exists.
C22_Witness ==
    \E i \in ReqIds :
        /\ Exists(i)
        /\ resp.op = "estado" /\ resp.id = i /\ resp.status = 400
        /\ resp.caller = store[i].nurse_id

\* Slot p answers a file-report call on request i with 200 in this step.
ReportSucceeds(p, i) == Answers(p, "reporte", i) /\ call[p].pc = "save"

\* C23: a file-report call is answered 200 only to the assigned nurse and on
\* a request that is completado, and the step that answers it changes
\* nothing of the request but observaciones and recomendaciones.
C23_ReportOnlyWritesReport ==
    [][\A p \in Procs, i \in ReqIds :
          ReportSucceeds(p, i)
          => /\ store[i].nurse_id = call[p].caller
             /\ store[i].estado = "completado"
             /\ store'[i] =
                   [store[i] EXCEPT
                      !.observaciones = store'[i].observaciones,
                      !.recomendaciones = store'[i].recomendaciones]]_vars

\* C24: the last report wins: when a file-report call is answered 200, the
\* stored observaciones and recomendaciones are the ones of that call (so
\* that the same report sent again leaves the request as it is).
C24_LastReportWins ==
    [][\A p \in Procs, i \in ReqIds :
          ReportSucceeds(p, i)
          => /\ store'[i].observaciones = call[p].observaciones
             /\ store'[i].recomendaciones = call[p].recomendaciones]_vars

\* The requests in which c takes part in the role of its account: as the
\* nurse for a nurse, as the client for a client.
MineByRole(c) ==
    {i \in ReqIds : /\ Exists(i)
                    /\ IF RoleOf(c) = "enfermero" THEN store[i].nurse_id = c
                                                  ELSE store[i].user_id = c}

\* C25: GET /service-requests answers the caller with exactly the stored
\* requests in which it takes part in its role, and with no other request.
C25_ListIsRoleScoped ==
    resp.op = "list"
    => body = [kind |-> "list",
               docs |-> {<<i, store[i]>> : i \in MineByRole(resp.caller)}]

\* C26: a store operation that fails during a transition is answered with a
\* server error (5xx), and the stored requests are as they were.
C26_StoreFailureIsServerError ==
    [][(\E p \in Procs : StoreRejects(p))
         => (resp'.status \in 500..599 /\ store' = store)]_vars

\* The transitions that name a request by its id.
TransitionOps == {"estado", "pagar", "completar", "reporte"}

\* C27: a transition that is refused (and whose body was well formed) is
\* answered 404 when no request has the id, and 403 when the request exists.
C27_MissingIs404DeniedIs403 ==
    (resp.op \in TransitionOps /\ resp.status \notin {200, 400})
    => resp.status = (IF Exists(resp.id) THEN 403 ELSE 404)

\* The endpoints that write a request.
MutatingOps == {"create"} \cup TransitionOps

\* C28: a mutating endpoint that succeeds answers with the whole request as
\* it is stored after the update.
C28_SuccessReturnsStoredRecord ==
    (resp.op \in MutatingOps /\ resp.status \in {200, 201})
    => body = DocBody(store[resp.id])

\* The token is an issued token that was altered.
Altered(token) == \E e \in issued : token \in Alterations(e.token)

\* C29: a request that shows an issued token whose signature or payload was
\* altered is rejected by the guard, and no identity is attached to it.
C29_AlteredTokenNeverVerifies ==
    Altered(TokenOf(guard.header))
    => (~guard.next /\ guard.status = 403 /\ guard.userId = NoToken)

\* A token whose payload names another subject under the signature of the
\* server was shown before the original expired, and was rejected.
C29_Witness ==
    LET token == TokenOf(guard.header) IN
    /\ Altered(token)
    /\ token.sig.key = Secret
    /\ token.payload.userId # token.sig.payload.userId
    /\ guard.at < token.payload.exp
    /\ guard.status = 403

\* The caller created request i, and the request is accepted.
Entitled(i, c) ==
    Exists(i) /\ store[i].user_id = c /\ store[i].estado = "aceptada"

\* C30: GET /service-requests/:id gives details only to the client that
\* created the request, and only while the request is accepted; every other
\* read is answered 404 with a fixed text.
C30_DetailsOnlyForClientOfAccepted ==
    \A i \in ReqIds :
       (resp.op = "detalle" /\ resp.id = i)
       => /\ body.kind # "document"
          /\ resp.status = 200 => Entitled(i, resp.caller)
          /\ ~Entitled(i, resp.caller)
               => (resp.status = 404 /\ body = MessageOnly)

\* The nurse of an accepted request asked for its details and got 404.
C30_Witness ==
    \E i \in ReqIds :
       /\ Exists(i) /\ store[i].estado = "aceptada"
       /\ resp.op = "detalle" /\ resp.id = i
       /\ resp.caller = store[i].nurse_id
       /\ resp.status = 404

\* The account of the token shown last was removed before the token was shown.
ShownAfterDeletion(e) ==
    /\ guard.header = <<"Bearer", e.token>>
    /\ \E d \in deleted : d.id = e.subject.id /\ d.at < guard.at

\* C31: the guard decides from the token alone: a token that was handed out
\* is let through at every instant before its expiry and turned away from
\* its expiry on, whether or not the account it was issued to still exists.
C31_GuardDecidesFromTokenAlone ==
    \A e \in issued :
       guard.header = <<"Bearer", e.token>>
       => (guard.next <=> guard.at < e.token.payload.exp)

\* The token of a removed account was shown after the removal and before its
\* expiry, and was let through.
C31_Witness ==
    \E e \in issued :
       ShownAfterDeletion(e) /\ guard.at < e.token.payload.exp /\ guard.next

C33_OneCompleteSucceeds ==
    [][\A p \in Procs, i \in ReqIds :
          (Answers(p, "completar", i) /\ call[p].pc = "save")
          => ~store[i].pago_liberado]_vars

\* The stored request i is after the step what it was before, but for the
\* paths in own.
OnlyPathsChange(i, own) ==
    /\ DOMAIN store'[i] = DOMAIN store[i]
    /\ \A f \in DOMAIN store[i] \ own : store'[i][f] = store[i][f]

\* C34: a transition writes its own paths and no other, however the calls
\* interleave: accept/reject writes estado, pagar writes pago_realizado,
\* completar writes estado, documentacion_servicio and pago_liberado. So a
\* pagar never puts back the estado it read before another call changed it.
C34_TransitionWritesOwnFields ==
    [][\A p \in Procs, i \in ReqIds :
          Exists(i)
          => /\ Answers(p, "estado", i) => OnlyPathsChange(i, {"estado"})
             /\ Answers(p, "pagar", i)
                   => OnlyPathsChange(i, {"pago_realizado"})
             /\ Answers(p, "completar", i)
                   => OnlyPathsChange(i, {"estado", "documentacion_servicio",
                                          "pago_liberado"})]_vars

\* A pagar that read the request while it was pendiente was answered 200
\* after the request had been accepted, and the request is still accepted.
C34_Witness ==
    \E i \in ReqIds :
       /\ Exists(i)
       /\ resp.op = "pagar" /\ resp.id = i /\ resp.status = 200
       /\ body = DocBody(PagarModify([store[i] EXCEPT !.estado = "pendiente",
                                                     !.pago_realizado = FALSE]))
       /\ store[i].estado = "aceptada"
       /\ store[i].pago_realizado

\* C35: the payment flags only go up: a stored request whose pago_realizado
\* is true keeps it true, and so for pago_liberado, whatever is done next.
C35_PaymentFlagsMonotonic ==
    [][\A i \in ReqIds :
          Exists(i)
          => /\ store[i].pago_realizado => store'[i].pago_realizado
             /\ store[i].pago_liberado => store'[i].pago_liberado]_vars

\* A request was paid, and an accept/reject of its nurse was answered 200
\* after that; the request is still paid.
C35_Witness ==
    \E i \in ReqIds :
       /\ Exists(i)
       /\ store[i].pago_realizado
       /\ resp.id = i /\ resp.op = "estado" /\ resp.status = 200

\* The values of estado.
Estados == {"pendiente", "aceptada", "rechazada", "completado"}

\* C36: the estado of every stored request is one of pendiente, aceptada,
\* rechazada, completado, and a request that has just been created is
\* pendiente and not paid, whatever its create body carried.
C36_EstadoDomainAndDefaults ==
    [][\A i \in ReqIds :
          store'[i] # Absent
          => /\ store'[i].estado \in Estados
             /\ ~Exists(i) => /\ store'[i].estado = "pendiente"
                              /\ store'[i].pago_realizado = FALSE]_vars

\* A request was created from a body that carried an estado and
\* pago_realizado: true, and is stored pendiente and not paid.
C36_Witness ==
    \E i \in ReqIds :
       /\ Exists(i)
       /\ resp = Reply("create", store[i].user_id, i, 201)
       /\ "estado" \in DOMAIN received
       /\ "pago_realizado" \in DOMAIN received
       /\ received.pago_realizado
       /\ store[i].estado = "pendiente"
       /\ store[i].pago_realizado = FALSE

\* C37: a patient stored through POST /patients has the caller as its
\* usuario_id, whatever usuario_id the body carried, and GET /patients
\* answers with patients of the caller only.
C37_PatientsOwnedByCaller ==
    [][/\ Len(patients') > Len(patients)
          => /\ resp' = Reply("paciente", resp'.caller, Len(patients'), 201)
             /\ patients'[Len(patients')].usuario_id = resp'.caller
       /\ resp'.op = "pacientes"
          => \A j \in DOMAIN body'.docs :
                body'.docs[j].usuario_id = resp'.caller]_vars

\* The patient stored last came with a body that named another account as
\* its owner, and belongs to the caller that sent it; the account named in
\* the body then listed its patients, and the list does not show it.
C37_Witness ==
    /\ resp.op = "pacientes" /\ resp.status = 200
    /\ Len(patients) > 0
    /\ "usuario_id" \in DOMAIN received
    /\ received.usuario_id = resp.caller
    /\ patients[Len(patients)].usuario_id # resp.caller
    /\ Len(body.docs) < Len(patients)

====
